---- MODULE Spec2Model ----
(***************************************************************************)
(* ServiceMarketplace (contracts/EscrowMarketplace.ts): the per-order      *)
(* state machine, the escrow ledger with its totalLocked register, the     *)
(* timeout policy, the in-frame reentrancy guard, the faucet and the       *)
(* inbound OP-20 transfer, as a state machine over the contract storage.   *)
(*                                                                         *)
(* A handler is translated statement by statement.  A `throw new Revert`   *)
(* ends the handler at that statement: the writes made before it stay in   *)
(* the storage record the handler returns, because the contract itself     *)
(* contains no undo of them (it validates, then writes).                   *)
(***************************************************************************)
EXTENDS Integers, FiniteSets, Sequences, TLC

\* ---------------------------------------------------------------- bounds
\* Identifiers handed out before createOrder is no longer attempted.
MaxOrders == 2
\* u64.MAX_VALUE at a reduced width (every u64 comparison in the contract
\* is against this value; no u64 operation of the contract wraps).
U64_MAX == 8191

\* ---------------------------------------------------- program constants
STATE_NONE == 0
STATE_CREATED == 1
STATE_ACCEPTED == 2
STATE_FUNDED == 3
STATE_COMPLETED == 4
STATE_CANCELLED == 5
STATE_DISPUTED == 6

MIN_DEADLINE_BLOCKS == 6
ACCEPT_TIMEOUT_BLOCKS == 7200
DISPUTE_TIMEOUT_BLOCKS == 144
FAUCET_COOLDOWN == 144
\* Token amounts are counted in faucet claims (FAUCET_AMOUNT base units are
\* one unit here), and the supply cap is scaled to two claims; the source
\* cap is a whole multiple of FAUCET_AMOUNT as well.
FAUCET_AMOUNT == 1
TOKEN_MAX_SUPPLY == 2

\* ------------------------------------------------------------ addresses
\* Address.fromU256(u256.Zero)
ZERO_ADDRESS == 0
\* Blockchain.contractAddress: an account of the ledger that never is
\* Blockchain.sender, since the contract issues no calls.
contractAddress == 9
\* Blockchain.sender of a call: the zero address and two parties (Spec).
Senders == {ZERO_ADDRESS, 1, 2}
\* Every address of the ledger: the zero address, three parties, the contract.
Accounts == {ZERO_ADDRESS, 1, 2, 3, contractAddress}

\* ------------------------------------------------------- input domains
OrderIds == 1..MaxOrders
\* calldata.readU64() of an order-addressed call: 0 and the identifiers up
\* to MaxOrders, issued or not
OrderIdArgs == 0..MaxOrders
\* calldata.readU256() of createOrder
Prices == {0, 1}
\* calldata.readU64() of createOrder: below the minimum, the minimum, and
\* one that overflows height + offset at every height but 0
DeadlineOffsets == {MIN_DEADLINE_BLOCKS - 1, MIN_DEADLINE_BLOCKS, U64_MAX}
\* Blockchain.blockNumber: height 0, and a height past the listing deadline,
\* the funding window and the dispute-refund window of an order listed and
\* accepted at 0 with the minimum offset.  An order listed at 0 with the
\* offset U64_MAX is past none of its windows at either height.
Heights == {0, ACCEPT_TIMEOUT_BLOCKS + 1}

\* ---------------------------------------------------------------- state
VARIABLES
    orderCount,      \* PTR_ORDER_COUNT
    seller,          \* PTR_SELLER, per order id
    buyer,           \* PTR_BUYER
    price,           \* PTR_PRICE
    locked,          \* PTR_LOCKED
    state,           \* PTR_STATE
    deadline,        \* PTR_DEADLINE
    acceptedAt,      \* PTR_ACCEPTED_AT
    totalLocked,     \* PTR_TOTAL_LOCKED
    lastClaimBlock,  \* PTR_LAST_CLAIM, per address
    balanceOfMap,    \* OP-20 ledger, per address
    totalSupply,     \* OP-20 total supply
    _locked,         \* reentrancy guard of the contract instance
    blockNumber      \* Blockchain.blockNumber

storage ==
    <<orderCount, seller, buyer, price, locked, state, deadline, acceptedAt,
      totalLocked, lastClaimBlock, balanceOfMap, totalSupply>>
vars == <<storage, _locked, blockNumber>>

\* The contract as one record: storage, ledger and the guard field.
Cur ==
    [orderCount |-> orderCount, seller |-> seller, buyer |-> buyer,
     price |-> price, locked |-> locked, state |-> state,
     deadline |-> deadline, acceptedAt |-> acceptedAt,
     totalLocked |-> totalLocked, lastClaimBlock |-> lastClaimBlock,
     balanceOfMap |-> balanceOfMap, totalSupply |-> totalSupply,
     _locked |-> _locked]

\* A handler ends by returning (err = "ok") or by a Revert (err = its kind).
Return(s) == [s |-> s, err |-> "ok"]
Throw(s, e) == [s |-> s, err |-> e]
\* A handler that returns a value other than `true` in its BytesWriter.
ReturnValue(s, v) == [s |-> s, err |-> "ok", ret |-> v]

\* -------------------------------------------------- reentrancy guard
\* mutant: the entry check of the guard is missing
_requireNotLocked_absent(s) == TRUE
_requireNotLocked(s) == ~s._locked
_lock(s) == [s EXCEPT !._locked = TRUE]
_unlock(s) == [s EXCEPT !._locked = FALSE]

\* -------------------------------------------------- storage accessors
_writeState(s, orderId, st) == [s EXCEPT !.state[orderId] = st]
\* mutant: the locked field is never written
_writeLocked_absent(s, orderId, amount) == s
_writeLocked(s, orderId, amount) == [s EXCEPT !.locked[orderId] = amount]
_writeTotalLocked(s, value) == [s EXCEPT !.totalLocked = value]

\* mutant: the counter wraps at u64.MAX_VALUE
_nextOrderId_wraps(s) ==
    Return([s EXCEPT !.orderCount = (s.orderCount + 1) % (U64_MAX + 1)])
_nextOrderId(s) ==
    IF s.orderCount = U64_MAX
    THEN Throw(s, "OrderIdOverflow")
    ELSE Return([s EXCEPT !.orderCount = s.orderCount + 1])

\* -------------------------------------------------- validation helpers
\* mutant: the identifier one above the counter passes
_requireOrderExists_offByOne(s, orderId) ==
    IF orderId = 0 THEN FALSE
    ELSE IF orderId > s.orderCount + 1 THEN FALSE
    ELSE TRUE
_requireOrderExists(s, orderId) ==
    IF orderId = 0 THEN FALSE
    ELSE IF orderId > s.orderCount THEN FALSE
    ELSE TRUE

\* mutant: the target state is written without comparing the stored state
_transition_unchecked(s, orderId, from, to) == Return(_writeState(s, orderId, to))
_transition(s, orderId, from, to) ==
    IF s.state[orderId] # from
    THEN Throw(s, "InvalidTransition")
    ELSE Return(_writeState(s, orderId, to))

_isZeroAddress(addr) == addr = ZERO_ADDRESS
_isDeadlineExpired(s, orderId, block) == block > s.deadline[orderId]

\* acceptedAt + ACCEPT_TIMEOUT_BLOCKS, saturating
fundDeadline(at) ==
    IF at > U64_MAX - ACCEPT_TIMEOUT_BLOCKS THEN U64_MAX ELSE at + ACCEPT_TIMEOUT_BLOCKS
\* deadline + DISPUTE_TIMEOUT_BLOCKS, saturating
forceRefundAt(dl) ==
    IF dl > U64_MAX - DISPUTE_TIMEOUT_BLOCKS THEN U64_MAX ELSE dl + DISPUTE_TIMEOUT_BLOCKS

\* ------------------------------------------------------ escrow ledger
\* The three balanceOfMap/totalLocked writes are made in the source's order,
\* so that a payer or recipient equal to an account written earlier is
\* overwritten as the source overwrites it.
\* mutant: the amount taken from the payer is not added to the contract
_escrowLock_uncredited(s, payer, amount) ==
    LET payerBal == s.balanceOfMap[payer]
    IN  IF payerBal < amount
        THEN Throw(s, "InsufficientBalance")
        ELSE LET newPayer == payerBal - amount
                 newTotal == s.totalLocked + amount
                 b1 == [s.balanceOfMap EXCEPT ![payer] = newPayer]
             IN  Return(_writeTotalLocked([s EXCEPT !.balanceOfMap = b1], newTotal))

\* mutant: the locked amount is not added to totalLocked
_escrowLock_unregistered(s, payer, amount) ==
    LET payerBal == s.balanceOfMap[payer]
        contractBal == s.balanceOfMap[contractAddress]
    IN  IF payerBal < amount
        THEN Throw(s, "InsufficientBalance")
        ELSE LET newPayer == payerBal - amount
                 newContract == contractBal + amount
                 b1 == [s.balanceOfMap EXCEPT ![payer] = newPayer]
                 b2 == [b1 EXCEPT ![contractAddress] = newContract]
             IN  Return([s EXCEPT !.balanceOfMap = b2])

_escrowLock(s, payer, amount) ==
    LET payerBal == s.balanceOfMap[payer]
        contractBal == s.balanceOfMap[contractAddress]
    IN  IF payerBal < amount
        THEN Throw(s, "InsufficientBalance")
        ELSE LET newPayer == payerBal - amount
                 newContract == contractBal + amount
                 newTotal == s.totalLocked + amount
                 b1 == [s.balanceOfMap EXCEPT ![payer] = newPayer]
                 b2 == [b1 EXCEPT ![contractAddress] = newContract]
             IN  Return(_writeTotalLocked([s EXCEPT !.balanceOfMap = b2], newTotal))

\* mutant: guard (1), contractBalance >= totalLocked, is not checked
_escrowRelease_noInvariant(s, recipient, amount) ==
    IF amount = 0 THEN Return(s)
    ELSE IF _isZeroAddress(recipient) THEN Throw(s, "InvalidRecipient")
    ELSE LET contractBal == s.balanceOfMap[contractAddress]
             total == s.totalLocked
         IN  IF total < amount THEN Throw(s, "LedgerUnderflow")
             ELSE IF contractBal < amount THEN Throw(s, "InsufficientEscrowBalance")
             ELSE LET recipientBal == s.balanceOfMap[recipient]
                      newContract == contractBal - amount
                      newRecipient == recipientBal + amount
                      newTotal == total - amount
                      b1 == [s.balanceOfMap EXCEPT ![contractAddress] = newContract]
                      b2 == [b1 EXCEPT ![recipient] = newRecipient]
                  IN  Return(_writeTotalLocked([s EXCEPT !.balanceOfMap = b2], newTotal))

_escrowRelease(s, recipient, amount) ==
    IF amount = 0 THEN Return(s)
    ELSE IF _isZeroAddress(recipient) THEN Throw(s, "InvalidRecipient")
    ELSE LET contractBal == s.balanceOfMap[contractAddress]
             total == s.totalLocked
         IN  IF contractBal < total THEN Throw(s, "CriticalInvariantViolation")
             ELSE IF total < amount THEN Throw(s, "LedgerUnderflow")
             ELSE IF contractBal < amount THEN Throw(s, "InsufficientEscrowBalance")
             ELSE LET recipientBal == s.balanceOfMap[recipient]
                      newContract == contractBal - amount
                      newRecipient == recipientBal + amount
                      newTotal == total - amount
                      b1 == [s.balanceOfMap EXCEPT ![contractAddress] = newContract]
                      b2 == [b1 EXCEPT ![recipient] = newRecipient]
                  IN  Return(_writeTotalLocked([s EXCEPT !.balanceOfMap = b2], newTotal))

\* -------------------------------------------------------- entry points
\* mutant: the offset is stored as the deadline, the height not added
_createOrder_relative(s0, sender, p, dBlocks, block) ==
    IF ~_requireNotLocked(s0) THEN Throw(s0, "Reentrancy")
    ELSE LET s1 == _lock(s0) IN
    IF _isZeroAddress(sender) THEN Throw(s1, "ZeroAddress")
    ELSE IF p = 0 THEN Throw(_unlock(s1), "ZeroPrice")
    ELSE IF dBlocks < MIN_DEADLINE_BLOCKS THEN Throw(_unlock(s1), "DeadlineBelowMin")
    ELSE LET r == _nextOrderId(s1) IN
    IF r.err # "ok" THEN r
    ELSE LET s2 == r.s
             orderId == r.s.orderCount
         IN
    IF block > U64_MAX - dBlocks THEN Throw(_unlock(s2), "DeadlineOverflow")
    ELSE LET s3 == [s2 EXCEPT !.seller[orderId] = sender,
                              !.buyer[orderId] = ZERO_ADDRESS,
                              !.price[orderId] = p,
                              !.locked[orderId] = 0,
                              !.deadline[orderId] = dBlocks,
                              !.acceptedAt[orderId] = 0]
         IN  ReturnValue(_unlock(_writeState(s3, orderId, STATE_CREATED)), orderId)

_createOrder(s0, sender, p, dBlocks, block) ==
    IF ~_requireNotLocked(s0) THEN Throw(s0, "Reentrancy")
    ELSE LET s1 == _lock(s0) IN
    IF _isZeroAddress(sender) THEN Throw(s1, "ZeroAddress")
    ELSE IF p = 0 THEN Throw(_unlock(s1), "ZeroPrice")
    ELSE IF dBlocks < MIN_DEADLINE_BLOCKS THEN Throw(_unlock(s1), "DeadlineBelowMin")
    ELSE LET r == _nextOrderId(s1) IN
    IF r.err # "ok" THEN r
    ELSE LET s2 == r.s
             orderId == r.s.orderCount
         IN
    IF block > U64_MAX - dBlocks THEN Throw(_unlock(s2), "DeadlineOverflow")
    ELSE LET deadlineAbs == block + dBlocks
             s3 == [s2 EXCEPT !.seller[orderId] = sender,
                              !.buyer[orderId] = ZERO_ADDRESS,
                              !.price[orderId] = p,
                              !.locked[orderId] = 0,
                              !.deadline[orderId] = deadlineAbs,
                              !.acceptedAt[orderId] = 0]
         IN  ReturnValue(_unlock(_writeState(s3, orderId, STATE_CREATED)), orderId)

\* mutant: acceptOrder does not require the order to be CREATED
_acceptOrder_again(s0, sender, orderId, block) ==
    IF ~_requireNotLocked(s0) THEN Throw(s0, "Reentrancy")
    ELSE LET s1 == _lock(s0) IN
    IF ~_requireOrderExists(s1, orderId) THEN Throw(s1, "OrderNotFound")
    ELSE IF _isZeroAddress(sender) THEN Throw(s1, "ZeroAddress")
    ELSE IF _isDeadlineExpired(s1, orderId, block) THEN Throw(s1, "WindowExpired")
    ELSE IF sender = s1.seller[orderId] THEN Throw(_unlock(s1), "Unauthorized")
    ELSE Return(_unlock([_writeState(s1, orderId, STATE_ACCEPTED)
                            EXCEPT !.buyer[orderId] = sender,
                                   !.acceptedAt[orderId] = block]))

\* mutant: the caller of acceptOrder is not checked against the zero address
_acceptOrder_byZero(s0, sender, orderId, block) ==
    IF ~_requireNotLocked(s0) THEN Throw(s0, "Reentrancy")
    ELSE LET s1 == _lock(s0) IN
    IF ~_requireOrderExists(s1, orderId) THEN Throw(s1, "OrderNotFound")
    ELSE IF _isDeadlineExpired(s1, orderId, block) THEN Throw(s1, "WindowExpired")
    ELSE IF sender = s1.seller[orderId] THEN Throw(_unlock(s1), "Unauthorized")
    ELSE LET r == _transition(s1, orderId, STATE_CREATED, STATE_ACCEPTED) IN
    IF r.err # "ok" THEN r
    ELSE Return(_unlock([r.s EXCEPT !.buyer[orderId] = sender,
                                    !.acceptedAt[orderId] = block]))

\* mutant: the seller is not kept from accepting the own listing
_acceptOrder_bySeller(s0, sender, orderId, block) ==
    IF ~_requireNotLocked(s0) THEN Throw(s0, "Reentrancy")
    ELSE LET s1 == _lock(s0) IN
    IF ~_requireOrderExists(s1, orderId) THEN Throw(s1, "OrderNotFound")
    ELSE IF _isZeroAddress(sender) THEN Throw(s1, "ZeroAddress")
    ELSE IF _isDeadlineExpired(s1, orderId, block) THEN Throw(s1, "WindowExpired")
    ELSE LET r == _transition(s1, orderId, STATE_CREATED, STATE_ACCEPTED) IN
    IF r.err # "ok" THEN r
    ELSE Return(_unlock([r.s EXCEPT !.buyer[orderId] = sender,
                                    !.acceptedAt[orderId] = block]))

_acceptOrder(s0, sender, orderId, block) ==
    IF ~_requireNotLocked(s0) THEN Throw(s0, "Reentrancy")
    ELSE LET s1 == _lock(s0) IN
    IF ~_requireOrderExists(s1, orderId) THEN Throw(s1, "OrderNotFound")
    ELSE IF _isZeroAddress(sender) THEN Throw(s1, "ZeroAddress")
    ELSE IF _isDeadlineExpired(s1, orderId, block) THEN Throw(s1, "WindowExpired")
    ELSE IF sender = s1.seller[orderId] THEN Throw(_unlock(s1), "Unauthorized")
    ELSE LET r == _transition(s1, orderId, STATE_CREATED, STATE_ACCEPTED) IN
    IF r.err # "ok" THEN r
    ELSE Return(_unlock([r.s EXCEPT !.buyer[orderId] = sender,
                                    !.acceptedAt[orderId] = block]))

\* mutant: the funding window is not checked
_fundOrder_anytime(s0, sender, orderId, block) ==
    IF ~_requireNotLocked(s0) THEN Throw(s0, "Reentrancy")
    ELSE LET s1 == _lock(s0) IN
    IF ~_requireOrderExists(s1, orderId) THEN Throw(s1, "OrderNotFound")
    ELSE IF _isDeadlineExpired(s1, orderId, block) THEN Throw(s1, "WindowExpired")
    ELSE LET b == s1.buyer[orderId] IN
    IF _isZeroAddress(b) THEN Throw(s1, "ZeroAddress")
    ELSE IF sender # b THEN Throw(s1, "Unauthorized")
    ELSE LET p == s1.price[orderId]
             r == _transition(s1, orderId, STATE_ACCEPTED, STATE_FUNDED)
         IN
    IF r.err # "ok" THEN r
    ELSE LET q == _escrowLock(_writeLocked(r.s, orderId, p), b, p) IN
    IF q.err # "ok" THEN q
    ELSE Return(_unlock(q.s))

_fundOrder(s0, sender, orderId, block) ==
    IF ~_requireNotLocked(s0) THEN Throw(s0, "Reentrancy")
    ELSE LET s1 == _lock(s0) IN
    IF ~_requireOrderExists(s1, orderId) THEN Throw(s1, "OrderNotFound")
    ELSE IF _isDeadlineExpired(s1, orderId, block) THEN Throw(s1, "WindowExpired")
    ELSE LET b == s1.buyer[orderId] IN
    IF _isZeroAddress(b) THEN Throw(s1, "ZeroAddress")
    ELSE IF sender # b THEN Throw(s1, "Unauthorized")
    ELSE IF block > fundDeadline(s1.acceptedAt[orderId])
         THEN Throw(_unlock(s1), "WindowExpired")
    ELSE LET p == s1.price[orderId]
             r == _transition(s1, orderId, STATE_ACCEPTED, STATE_FUNDED)
         IN
    IF r.err # "ok" THEN r
    ELSE LET q == _escrowLock(_writeLocked(r.s, orderId, p), b, p) IN
    IF q.err # "ok" THEN q
    ELSE Return(_unlock(q.s))

\* mutant: the seller may confirm as well as the buyer
_confirmCompletion_bySeller(s0, sender, orderId) ==
    IF ~_requireNotLocked(s0) THEN Throw(s0, "Reentrancy")
    ELSE LET s1 == _lock(s0) IN
    IF ~_requireOrderExists(s1, orderId) THEN Throw(s1, "OrderNotFound")
    ELSE LET b == s1.buyer[orderId]
             sl == s1.seller[orderId]
         IN
    IF _isZeroAddress(b) THEN Throw(s1, "ZeroAddress")
    ELSE IF _isZeroAddress(sl) THEN Throw(s1, "ZeroAddress")
    ELSE IF sender # b /\ sender # sl THEN Throw(s1, "Unauthorized")
    ELSE LET lk == s1.locked[orderId] IN
    IF lk = 0 THEN Throw(_unlock(s1), "LockedZero")
    ELSE LET r == _transition(s1, orderId, STATE_FUNDED, STATE_COMPLETED) IN
    IF r.err # "ok" THEN r
    ELSE LET q == _escrowRelease(_writeLocked(r.s, orderId, 0), sl, lk) IN
    IF q.err # "ok" THEN q
    ELSE Return(_unlock(q.s))

_confirmCompletion(s0, sender, orderId) ==
    IF ~_requireNotLocked(s0) THEN Throw(s0, "Reentrancy")
    ELSE LET s1 == _lock(s0) IN
    IF ~_requireOrderExists(s1, orderId) THEN Throw(s1, "OrderNotFound")
    ELSE LET b == s1.buyer[orderId]
             sl == s1.seller[orderId]
         IN
    IF _isZeroAddress(b) THEN Throw(s1, "ZeroAddress")
    ELSE IF _isZeroAddress(sl) THEN Throw(s1, "ZeroAddress")
    ELSE IF sender # b THEN Throw(s1, "Unauthorized")
    ELSE LET lk == s1.locked[orderId] IN
    IF lk = 0 THEN Throw(_unlock(s1), "LockedZero")
    ELSE LET r == _transition(s1, orderId, STATE_FUNDED, STATE_COMPLETED) IN
    IF r.err # "ok" THEN r
    ELSE LET q == _escrowRelease(_writeLocked(r.s, orderId, 0), sl, lk) IN
    IF q.err # "ok" THEN q
    ELSE Return(_unlock(q.s))

\* the four branches of _cancelOrder, each from the guard-held state s1
\* mutant: the listing counts as expired at the deadline height itself
cancelCreated_atDeadline(s1, sender, orderId, block) ==
    IF sender # s1.seller[orderId] /\ block < s1.deadline[orderId]
    THEN Throw(_unlock(s1), "Unauthorized")
    ELSE LET r == _transition(s1, orderId, STATE_CREATED, STATE_CANCELLED) IN
         IF r.err # "ok" THEN r ELSE Return(_unlock(r.s))

cancelCreated(s1, sender, orderId, block) ==
    IF sender # s1.seller[orderId] /\ ~_isDeadlineExpired(s1, orderId, block)
    THEN Throw(_unlock(s1), "Unauthorized")
    ELSE LET r == _transition(s1, orderId, STATE_CREATED, STATE_CANCELLED) IN
         IF r.err # "ok" THEN r ELSE Return(_unlock(r.s))

\* mutant: an ACCEPTED order is cancellable once the listing has expired
cancelAccepted_byListing(s1, sender, orderId, block) ==
    IF ~_isDeadlineExpired(s1, orderId, block)
    THEN Throw(_unlock(s1), "WindowNotElapsed")
    ELSE LET r == _transition(s1, orderId, STATE_ACCEPTED, STATE_CANCELLED) IN
         IF r.err # "ok" THEN r ELSE Return(_unlock(r.s))

\* mutant: the funding window ends one height early
cancelAccepted_early(s1, sender, orderId, block) ==
    IF block < fundDeadline(s1.acceptedAt[orderId])
    THEN Throw(_unlock(s1), "WindowNotElapsed")
    ELSE LET r == _transition(s1, orderId, STATE_ACCEPTED, STATE_CANCELLED) IN
         IF r.err # "ok" THEN r ELSE Return(_unlock(r.s))

cancelAccepted(s1, sender, orderId, block) ==
    IF block <= fundDeadline(s1.acceptedAt[orderId])
    THEN Throw(_unlock(s1), "WindowNotElapsed")
    ELSE LET r == _transition(s1, orderId, STATE_ACCEPTED, STATE_CANCELLED) IN
         IF r.err # "ok" THEN r ELSE Return(_unlock(r.s))

cancelFunded(s1, sender, orderId, block) ==
    LET sl == s1.seller[orderId]
        b == s1.buyer[orderId]
        lk == s1.locked[orderId]
    IN
    IF sender # sl /\ (sender # b \/ ~_isDeadlineExpired(s1, orderId, block))
    THEN Throw(_unlock(s1), "Unauthorized")
    ELSE IF _isZeroAddress(b) THEN Throw(s1, "ZeroAddress")
    ELSE LET r == _transition(s1, orderId, STATE_FUNDED, STATE_CANCELLED) IN
    IF r.err # "ok" THEN r
    ELSE LET q == _escrowRelease(_writeLocked(r.s, orderId, 0), b, lk) IN
    IF q.err # "ok" THEN q
    ELSE Return(_unlock(q.s))

cancelDisputed(s1, sender, orderId, block) ==
    IF block < forceRefundAt(s1.deadline[orderId])
    THEN Throw(_unlock(s1), "WindowNotElapsed")
    ELSE LET b == s1.buyer[orderId] IN
    IF sender # b THEN Throw(_unlock(s1), "Unauthorized")
    ELSE IF _isZeroAddress(b) THEN Throw(s1, "ZeroAddress")
    ELSE LET lk == s1.locked[orderId]
             r == _transition(s1, orderId, STATE_DISPUTED, STATE_CANCELLED)
         IN
    IF r.err # "ok" THEN r
    ELSE LET q == _escrowRelease(_writeLocked(r.s, orderId, 0), b, lk) IN
    IF q.err # "ok" THEN q
    ELSE Return(_unlock(q.s))

\* mutant: a state outside the four cancellable ones falls into the
\* CREATED branch
_cancelOrder_noDefault(s0, sender, orderId, block) ==
    IF ~_requireNotLocked(s0) THEN Throw(s0, "Reentrancy")
    ELSE LET s1 == _lock(s0) IN
    IF ~_requireOrderExists(s1, orderId) THEN Throw(s1, "OrderNotFound")
    ELSE LET st == s1.state[orderId] IN
    IF st = STATE_ACCEPTED THEN cancelAccepted(s1, sender, orderId, block)
    ELSE IF st = STATE_FUNDED THEN cancelFunded(s1, sender, orderId, block)
    ELSE IF st = STATE_DISPUTED THEN cancelDisputed(s1, sender, orderId, block)
    ELSE cancelCreated(s1, sender, orderId, block)

_cancelOrder(s0, sender, orderId, block) ==
    IF ~_requireNotLocked(s0) THEN Throw(s0, "Reentrancy")
    ELSE LET s1 == _lock(s0) IN
    IF ~_requireOrderExists(s1, orderId) THEN Throw(s1, "OrderNotFound")
    ELSE LET st == s1.state[orderId] IN
    IF st = STATE_CREATED THEN cancelCreated(s1, sender, orderId, block)
    ELSE IF st = STATE_ACCEPTED THEN cancelAccepted(s1, sender, orderId, block)
    ELSE IF st = STATE_FUNDED THEN cancelFunded(s1, sender, orderId, block)
    ELSE IF st = STATE_DISPUTED THEN cancelDisputed(s1, sender, orderId, block)
    ELSE Throw(_unlock(s1), "NotCancellable")

\* mutant: the dispute is opened from ACCEPTED instead of FUNDED
_openDispute_fromAccepted(s0, sender, orderId) ==
    IF ~_requireNotLocked(s0) THEN Throw(s0, "Reentrancy")
    ELSE LET s1 == _lock(s0) IN
    IF ~_requireOrderExists(s1, orderId) THEN Throw(s1, "OrderNotFound")
    ELSE IF sender # s1.buyer[orderId] /\ sender # s1.seller[orderId]
         THEN Throw(_unlock(s1), "Unauthorized")
    ELSE LET r == _transition(s1, orderId, STATE_ACCEPTED, STATE_DISPUTED) IN
    IF r.err # "ok" THEN r ELSE Return(_unlock(r.s))

_openDispute(s0, sender, orderId) ==
    IF ~_requireNotLocked(s0) THEN Throw(s0, "Reentrancy")
    ELSE LET s1 == _lock(s0) IN
    IF ~_requireOrderExists(s1, orderId) THEN Throw(s1, "OrderNotFound")
    ELSE IF sender # s1.buyer[orderId] /\ sender # s1.seller[orderId]
         THEN Throw(_unlock(s1), "Unauthorized")
    ELSE LET r == _transition(s1, orderId, STATE_FUNDED, STATE_DISPUTED) IN
    IF r.err # "ok" THEN r ELSE Return(_unlock(r.s))

\* mutant: the whole contract balance is swept, locked funds included
_sweepExcess_all(s0, sender) ==
    IF ~_requireNotLocked(s0) THEN Throw(s0, "Reentrancy")
    ELSE LET s1 == _lock(s0)
             contractBal == s1.balanceOfMap[contractAddress]
         IN
    IF _isZeroAddress(sender) THEN Throw(s1, "ZeroAddress")
    ELSE IF contractBal > 0
         THEN LET b1 == [s1.balanceOfMap EXCEPT ![contractAddress] = 0]
                  b2 == [b1 EXCEPT ![sender] = s1.balanceOfMap[sender] + contractBal]
              IN  Return(_unlock([s1 EXCEPT !.balanceOfMap = b2]))
         ELSE Return(_unlock(s1))

_sweepExcess(s0, sender) ==
    IF ~_requireNotLocked(s0) THEN Throw(s0, "Reentrancy")
    ELSE LET s1 == _lock(s0)
             contractBal == s1.balanceOfMap[contractAddress]
             total == s1.totalLocked
         IN
    IF _isZeroAddress(sender) THEN Throw(s1, "ZeroAddress")
    ELSE IF contractBal > total
         THEN LET excess == contractBal - total
                  recipientBal == s1.balanceOfMap[sender]
                  b1 == [s1.balanceOfMap EXCEPT ![contractAddress] = contractBal - excess]
                  b2 == [b1 EXCEPT ![sender] = recipientBal + excess]
              IN  Return(_unlock([s1 EXCEPT !.balanceOfMap = b2]))
         ELSE Return(_unlock(s1))

\* this.mint(to, amount) of the OP-20 base
mint(s, to, amount) ==
    [s EXCEPT !.balanceOfMap[to] = s.balanceOfMap[to] + amount,
              !.totalSupply = s.totalSupply + amount]

\* mutant: guard (3), the supply cap, is not checked
_claimFaucet_uncapped(s0, sender, block) ==
    IF ~_requireNotLocked(s0) THEN Throw(s0, "Reentrancy")
    ELSE LET s1 == _lock(s0) IN
    IF _isZeroAddress(sender) THEN Throw(s1, "ZeroAddress")
    ELSE LET lastClaim == s1.lastClaimBlock[sender] IN
    IF lastClaim # 0 /\ (block < lastClaim \/ block - lastClaim < FAUCET_COOLDOWN)
    THEN Throw(_unlock(s1), "Cooldown")
    ELSE Return(_unlock(mint([s1 EXCEPT !.lastClaimBlock[sender] = block],
                             sender, FAUCET_AMOUNT)))

_claimFaucet(s0, sender, block) ==
    IF ~_requireNotLocked(s0) THEN Throw(s0, "Reentrancy")
    ELSE LET s1 == _lock(s0) IN
    IF _isZeroAddress(sender) THEN Throw(s1, "ZeroAddress")
    ELSE LET lastClaim == s1.lastClaimBlock[sender] IN
    IF lastClaim # 0 /\ (block < lastClaim \/ block - lastClaim < FAUCET_COOLDOWN)
    THEN Throw(_unlock(s1), "Cooldown")
    ELSE IF s1.totalSupply + FAUCET_AMOUNT > TOKEN_MAX_SUPPLY
         THEN Throw(_unlock(s1), "SupplyCap")
    ELSE Return(_unlock(mint([s1 EXCEPT !.lastClaimBlock[sender] = block],
                             sender, FAUCET_AMOUNT)))

\* getOrder(orderId): a view, which neither checks nor takes the guard
_getOrder(s, orderId) ==
    IF ~_requireOrderExists(s, orderId) THEN Throw(s, "OrderNotFound")
    ELSE ReturnValue(s, <<orderId, s.seller[orderId], s.buyer[orderId],
                          s.price[orderId], s.locked[orderId], s.state[orderId],
                          s.deadline[orderId], s.acceptedAt[orderId]>>)

\* transfer(to, amount) of the OP-20 base, reached through the default
\* branch of callMethod; it does not look at the guard.
transfer(s, sender, to, amount) ==
    IF s.balanceOfMap[sender] < amount THEN Throw(s, "InsufficientBalance")
    ELSE LET b1 == [s.balanceOfMap EXCEPT ![sender] = s.balanceOfMap[sender] - amount]
             b2 == [b1 EXCEPT ![to] = b1[to] + amount]
         IN  Return([s EXCEPT !.balanceOfMap = b2])

\* -------------------------------------------------------------- actions
Init ==
    /\ orderCount = 0
    /\ seller = [i \in OrderIds |-> ZERO_ADDRESS]
    /\ buyer = [i \in OrderIds |-> ZERO_ADDRESS]
    /\ price = [i \in OrderIds |-> 0]
    /\ locked = [i \in OrderIds |-> 0]
    /\ state = [i \in OrderIds |-> STATE_NONE]
    /\ deadline = [i \in OrderIds |-> 0]
    /\ acceptedAt = [i \in OrderIds |-> 0]
    /\ totalLocked = 0
    /\ lastClaimBlock = [a \in Accounts |-> 0]
    /\ balanceOfMap = [a \in Accounts |-> 0]
    /\ totalSupply = 0
    /\ _locked = FALSE
    /\ blockNumber = 0

\* The storage and the guard as the handler left them, by return or Revert.
Commit(r) ==
    /\ orderCount' = r.s.orderCount
    /\ seller' = r.s.seller
    /\ buyer' = r.s.buyer
    /\ price' = r.s.price
    /\ locked' = r.s.locked
    /\ state' = r.s.state
    /\ deadline' = r.s.deadline
    /\ acceptedAt' = r.s.acceptedAt
    /\ totalLocked' = r.s.totalLocked
    /\ lastClaimBlock' = r.s.lastClaimBlock
    /\ balanceOfMap' = r.s.balanceOfMap
    /\ totalSupply' = r.s.totalSupply
    /\ _locked' = r.s._locked
    /\ UNCHANGED blockNumber

CreateOrder(S, P, D, max) ==
    /\ orderCount < max
    /\ \E sender \in S, p \in P, dBlocks \in D :
          Commit(_createOrder(Cur, sender, p, dBlocks, blockNumber))

AcceptOrder(S, I) ==
    \E sender \in S, orderId \in I :
        Commit(_acceptOrder(Cur, sender, orderId, blockNumber))

FundOrder(S, I) ==
    \E sender \in S, orderId \in I :
        Commit(_fundOrder(Cur, sender, orderId, blockNumber))

ConfirmCompletion(S, I) ==
    \E sender \in S, orderId \in I :
        Commit(_confirmCompletion(Cur, sender, orderId))

CancelOrder(S, I) ==
    \E sender \in S, orderId \in I :
        Commit(_cancelOrder(Cur, sender, orderId, blockNumber))

OpenDispute(S, I) ==
    \E sender \in S, orderId \in I :
        Commit(_openDispute(Cur, sender, orderId))

SweepExcess(S) ==
    \E sender \in S : Commit(_sweepExcess(Cur, sender))

ClaimFaucet(S) ==
    \E sender \in S : Commit(_claimFaucet(Cur, sender, blockNumber))

GetOrder(I) ==
    \E orderId \in I : Commit(_getOrder(Cur, orderId))

\* An inbound OP-20 transfer of one unit to the contract's own address.
Transfer(S) ==
    \E sender \in S \ {ZERO_ADDRESS} :
        Commit(transfer(Cur, sender, contractAddress, 1))

\* The constructor runs on every interaction: a new instance, whose guard
\* field starts false, over the same storage.
Constructor ==
    /\ _locked' = FALSE
    /\ UNCHANGED <<storage, blockNumber>>

\* The chain grows: a later call sees a greater height.
AdvanceBlock(H) ==
    /\ \E h \in H : h > blockNumber /\ blockNumber' = h
    /\ UNCHANGED <<storage, _locked>>

Next ==
    \/ CreateOrder(Senders, Prices, DeadlineOffsets, MaxOrders)
    \/ AcceptOrder(Senders, OrderIdArgs)
    \/ FundOrder(Senders, OrderIdArgs)
    \/ ConfirmCompletion(Senders, OrderIdArgs)
    \/ CancelOrder(Senders, OrderIdArgs)
    \/ OpenDispute(Senders, OrderIdArgs)
    \/ SweepExcess(Senders)
    \/ ClaimFaucet(Senders)
    \/ GetOrder(OrderIdArgs)
    \/ Transfer(Senders)
    \/ Constructor
    \/ AdvanceBlock(Heights)

Spec == Init /\ [][Next]_vars

\* ------------------------------------ one order across its three windows
\* Blockchain.sender: the zero address, the seller (1), the buyer (2) and a
\* third party (3).
TimedSenders == {ZERO_ADDRESS, 1, 2, 3}
\* Blockchain.blockNumber: for an order listed and accepted at height 0 with
\* the minimum offset, the last height of each window and the first height
\* past it (listing deadline, dispute-refund height, funding window).
TimedHeights ==
    {0,
     MIN_DEADLINE_BLOCKS, MIN_DEADLINE_BLOCKS + 1,
     MIN_DEADLINE_BLOCKS + DISPUTE_TIMEOUT_BLOCKS,
     MIN_DEADLINE_BLOCKS + DISPUTE_TIMEOUT_BLOCKS + 1,
     ACCEPT_TIMEOUT_BLOCKS, ACCEPT_TIMEOUT_BLOCKS + 1}

\* The same entry points, for one order listed by party 1 and accepted by
\* party 2, with every party calling the order-addressed entry points.
TimedNext ==
    \/ CreateOrder({1}, {1}, {MIN_DEADLINE_BLOCKS, U64_MAX}, 1)
    \/ AcceptOrder({ZERO_ADDRESS, 1, 2}, {1})
    \/ FundOrder(TimedSenders, {1})
    \/ ConfirmCompletion(TimedSenders, {1})
    \/ CancelOrder(TimedSenders, {1})
    \/ OpenDispute(TimedSenders, {1})
    \/ SweepExcess({3})
    \/ ClaimFaucet({2})
    \/ GetOrder({0, 1})
    \/ Transfer({2})
    \/ Constructor
    \/ AdvanceBlock(TimedHeights)

TimedSpec == Init /\ [][TimedNext]_vars

\* ================================================================ claims
\* The identifiers that pass _requireOrderExists.
Issued == 1..orderCount
Terminal == {STATE_COMPLETED, STATE_CANCELLED}
Escrowed == {STATE_FUNDED, STATE_DISPUTED}
Defined ==
    {STATE_CREATED, STATE_ACCEPTED, STATE_FUNDED, STATE_COMPLETED,
     STATE_CANCELLED, STATE_DISPUTED}

\* Storage and ledger of a contract record, the guard field left out.
Persistent(s) == [s EXCEPT !._locked = FALSE]

\* The result of every call of a mutating entry point that can be made in
\* the current state, one per sender and argument of the input domains.
CreateCalls ==
    IF orderCount < MaxOrders
    THEN {_createOrder(Cur, a, p, d, blockNumber) :
             a \in Senders, p \in Prices, d \in DeadlineOffsets}
    ELSE {}
OrderCalls ==
    {_acceptOrder(Cur, a, i, blockNumber) : a \in Senders, i \in OrderIdArgs}
    \cup {_fundOrder(Cur, a, i, blockNumber) : a \in Senders, i \in OrderIdArgs}
    \cup {_confirmCompletion(Cur, a, i) : a \in Senders, i \in OrderIdArgs}
    \cup {_cancelOrder(Cur, a, i, blockNumber) : a \in Senders, i \in OrderIdArgs}
    \cup {_openDispute(Cur, a, i) : a \in Senders, i \in OrderIdArgs}
LedgerCalls ==
    {_sweepExcess(Cur, a) : a \in Senders}
    \cup {_claimFaucet(Cur, a, blockNumber) : a \in Senders}
EntryCalls == CreateCalls \cup OrderCalls \cup LedgerCalls

RECURSIVE SumOver(_, _)
SumOver(f, S) ==
    IF S = {} THEN 0
    ELSE LET x == CHOOSE y \in S : TRUE IN f[x] + SumOver(f, S \ {x})

\* C1: in every reachable state the contract's own ledger balance is at
\* least totalLocked.
Solvency == balanceOfMap[contractAddress] >= totalLocked
\* one order was paid out while another is still escrowed
SolvencyWitness ==
    /\ totalLocked > 0
    /\ \E i \in Issued : state[i] = STATE_COMPLETED /\ balanceOfMap[seller[i]] > 0

\* C2: in every reachable state totalLocked equals the sum of the locked
\* field over the orders whose state is FUNDED or DISPUTED.
TotalLockedIsSum ==
    totalLocked = SumOver(locked, {i \in Issued : state[i] \in Escrowed})

\* C3: for every order, locked = price exactly when the state is FUNDED or
\* DISPUTED, and locked = 0 in every other state.
LockedMatchesState ==
    \A i \in Issued :
        /\ state[i] \in Escrowed => locked[i] = price[i]
        /\ state[i] \notin Escrowed => locked[i] = 0
        /\ state[i] \in Defined => (locked[i] = price[i] <=> state[i] \in Escrowed)
\* an escrowed order next to an order that left escrow
LockedMatchesStateWitness ==
    \E i, j \in Issued :
        /\ state[i] \in Escrowed /\ locked[i] > 0
        /\ state[j] \in Terminal /\ buyer[j] # ZERO_ADDRESS /\ price[j] > 0

ValidTransitions ==
    {<<STATE_CREATED, STATE_ACCEPTED>>, <<STATE_CREATED, STATE_CANCELLED>>,
     <<STATE_ACCEPTED, STATE_FUNDED>>, <<STATE_ACCEPTED, STATE_CANCELLED>>,
     <<STATE_FUNDED, STATE_COMPLETED>>, <<STATE_FUNDED, STATE_CANCELLED>>,
     <<STATE_FUNDED, STATE_DISPUTED>>, <<STATE_DISPUTED, STATE_CANCELLED>>}

\* the orders whose state a call result r changes
Moved(r) == {i \in Issued : r.s.state[i] # state[i]}

\* C4: every change of the state of an issued order is one of the eight
\* transitions, and every order-addressed call that succeeds changes the
\* state of exactly the addressed order, by one of them.
OnlyValidTransitions ==
    /\ [][\A i \in Issued :
             state'[i] # state[i] => <<state[i], state'[i]>> \in ValidTransitions]_vars
    /\ [](\A r \in OrderCalls :
             r.err = "ok" =>
                /\ Cardinality(Moved(r)) = 1
                /\ \A i \in Moved(r) : <<state[i], r.s.state[i]>> \in ValidTransitions)
\* every transition of the table has been taken by some order
OnlyValidTransitionsWitness ==
    \E i, j \in Issued :
        /\ state[i] = STATE_COMPLETED /\ balanceOfMap[seller[i]] > 0
        /\ state[j] = STATE_DISPUTED

\* the fields of order i in a contract record
OrderOf(s, i) ==
    <<s.state[i], s.seller[i], s.buyer[i], s.price[i], s.locked[i],
      s.deadline[i], s.acceptedAt[i]>>

\* C5: once an order is COMPLETED or CANCELLED no step changes any of its
\* fields, and no call addressed to it moves a balance or totalLocked.
TerminalIsFinal ==
    /\ [][\A i \in Issued :
             state[i] \in Terminal =>
                OrderOf([state |-> state', seller |-> seller', buyer |-> buyer',
                         price |-> price', locked |-> locked',
                         deadline |-> deadline', acceptedAt |-> acceptedAt'], i)
                = OrderOf(Cur, i)]_vars
    /\ [](\A i \in Issued, a \in Senders :
             state[i] \in Terminal =>
                \A r \in {_acceptOrder(Cur, a, i, blockNumber),
                          _fundOrder(Cur, a, i, blockNumber),
                          _confirmCompletion(Cur, a, i),
                          _cancelOrder(Cur, a, i, blockNumber),
                          _openDispute(Cur, a, i)} :
                    /\ r.err # "ok"
                    /\ Persistent(r.s) = Persistent(Cur))
\* a terminal order, at a height past its deadline, with the guard free
TerminalIsFinalWitness ==
    \E i \in Issued :
        /\ state[i] = STATE_CANCELLED /\ locked[i] = 0 /\ buyer[i] # ZERO_ADDRESS
        /\ blockNumber > deadline[i]
        /\ ~_locked

\* C6: a call of a mutating entry point that fails leaves every order
\* record, the order counter, totalLocked and every balance as before.
FailedCallWritesNothing ==
    \A r \in EntryCalls : r.err # "ok" => Persistent(r.s) = Persistent(Cur)

\* C7: a call that fails a precondition check leaves the order counter,
\* totalLocked and every ledger balance unchanged.
FailedCallKeepsCounters ==
    \A r \in EntryCalls :
        r.err # "ok" =>
            /\ r.s.orderCount = orderCount
            /\ r.s.totalLocked = totalLocked
            /\ r.s.balanceOfMap = balanceOfMap

\* the part of a contract record an invalid transition must leave alone
Untouched(r, i) ==
    /\ r.err # "ok"
    /\ r.s.state[i] = state[i]
    /\ r.s.locked[i] = locked[i]
    /\ r.s.totalLocked = totalLocked
    /\ r.s.balanceOfMap = balanceOfMap

\* C8: accept on a non-CREATED order, fund on a non-ACCEPTED order, confirm
\* or dispute on a non-FUNDED order fails and leaves the order's state and
\* locked amount, totalLocked and every balance as before.
MismatchChangesNothing ==
    \A i \in Issued, a \in Senders :
        /\ state[i] # STATE_CREATED => Untouched(_acceptOrder(Cur, a, i, blockNumber), i)
        /\ state[i] # STATE_ACCEPTED => Untouched(_fundOrder(Cur, a, i, blockNumber), i)
        /\ state[i] # STATE_FUNDED => Untouched(_confirmCompletion(Cur, a, i), i)
        /\ state[i] # STATE_FUNDED => Untouched(_openDispute(Cur, a, i), i)
\* a call passes every other check and is stopped by _transition
MismatchChangesNothingWitness ==
    \E i \in Issued, a \in Senders :
        /\ state[i] = STATE_DISPUTED
        /\ _openDispute(Cur, a, i).err = "InvalidTransition"
        /\ _confirmCompletion(Cur, a, i).err = "InvalidTransition"

\* C9: the guard is released on every exit path of every mutating entry
\* point, so it is not held once a top-level call has ended.
GuardReleased == ~_locked

\* C10: while the guard is held, a call of any mutating entry point fails
\* with Reentrancy, changes nothing and leaves the guard held.
ReentrancyRejected ==
    _locked => \A r \in EntryCalls : r.err = "Reentrancy" /\ r.s = Cur
\* the guard is held while an order has funds in escrow
ReentrancyRejectedWitness ==
    /\ _locked
    /\ \E i \in Issued : state[i] = STATE_FUNDED /\ totalLocked > 0

\* --------------------------------------- the order counter up to its end
\* createOrder alone, by one seller at one price, until the counter is at
\* u64.MAX_VALUE.  The records of the identifiers above MaxOrders are not
\* kept (a write to them changes nothing in the model).
CounterNext ==
    \/ CreateOrder({1}, {1}, {MIN_DEADLINE_BLOCKS, U64_MAX}, U64_MAX + 1)
    \/ Constructor
    \/ AdvanceBlock(Heights)

CounterSpec == Init /\ [][CounterNext]_vars

\* ------------------------------------------- claims about the windows
\* The contract as a top-level call finds it: the current storage under a
\* new instance, whose guard field is false.
TopLevel == _unlock(Cur)
NonTerminal == {STATE_CREATED, STATE_ACCEPTED, STATE_FUNDED, STATE_DISPUTED}
\* the heights the chain can still reach, the last u64 height included
LaterHeights == {h \in TimedHeights \cup {U64_MAX} : h >= blockNumber}
\* the callers that must be able to cancel order i without the other party
Unilateral(i) ==
    IF state[i] \in {STATE_CREATED, STATE_ACCEPTED} THEN TimedSenders ELSE {buyer[i]}

\* C11: for every order in a non-terminal state there is a later height
\* from which cancelOrder succeeds, for any caller when the order is CREATED
\* or ACCEPTED and for the buyer when it is FUNDED or DISPUTED.
NoTrap ==
    \A i \in Issued :
        state[i] \in NonTerminal =>
            \A a \in Unilateral(i) :
                \E h \in LaterHeights :
                    \A h2 \in LaterHeights :
                        h2 >= h => _cancelOrder(TopLevel, a, i, h2).err = "ok"

\* Order i's locked amount was moved into escrow by its fundOrder: it is
\* part of totalLocked (a fundOrder that failed in _escrowLock leaves
\* locked[i] written and totalLocked without it, see C6).
InEscrow(i) == locked[i] > 0 /\ totalLocked >= locked[i]

\* C12: cancelOrder on a DISPUTED order, its amount in escrow, succeeds
\* only for the buyer at a
\* height strictly greater than deadline + DISPUTE_TIMEOUT_BLOCKS; at every
\* height not past it the call fails WindowNotElapsed for every caller and
\* moves nothing; on success the order is CANCELLED, the buyer receives the
\* locked amount and totalLocked decreases by it.
DisputedCancelOnlyPastWindow ==
    \A i \in Issued, a \in TimedSenders :
        (state[i] = STATE_DISPUTED /\ InEscrow(i)) =>
            LET r == _cancelOrder(TopLevel, a, i, blockNumber)
                past == blockNumber > deadline[i] + DISPUTE_TIMEOUT_BLOCKS
            IN  /\ r.err = "ok" => a = buyer[i] /\ past
                /\ ~past => r.err = "WindowNotElapsed" /\ r.s = TopLevel
                /\ r.err = "ok" =>
                      /\ r.s.state[i] = STATE_CANCELLED
                      /\ r.s.balanceOfMap[buyer[i]] = balanceOfMap[buyer[i]] + locked[i]
                      /\ r.s.totalLocked = totalLocked - locked[i]

\* the caller the FUNDED branch lets through: the seller at any height, the
\* buyer once the height is past the listing deadline
MayCancelFunded(a, i) ==
    a = seller[i] \/ (a = buyer[i] /\ blockNumber > deadline[i])

\* C13: cancelOrder on a FUNDED order succeeds if and only if the caller is
\* the seller, or the buyer at a height past the listing deadline; on
\* success the order is CANCELLED with locked 0, the buyer's balance grows
\* by the locked amount and the contract balance and totalLocked shrink by
\* it.
FundedCancelRule ==
    \A i \in Issued, a \in TimedSenders :
        state[i] = STATE_FUNDED =>
            LET r == _cancelOrder(TopLevel, a, i, blockNumber) IN
            /\ r.err = "ok" <=> MayCancelFunded(a, i)
            /\ r.err = "ok" =>
                  /\ r.s.state[i] = STATE_CANCELLED
                  /\ r.s.locked[i] = 0
                  /\ r.s.balanceOfMap[buyer[i]] = balanceOfMap[buyer[i]] + locked[i]
                  /\ r.s.balanceOfMap[contractAddress]
                        = balanceOfMap[contractAddress] - locked[i]
                  /\ r.s.totalLocked = totalLocked - locked[i]

\* C14: cancelOrder on an ACCEPTED order succeeds, for any caller, if and
\* only if the height is past acceptedAt + ACCEPT_TIMEOUT_BLOCKS; on success
\* the order is CANCELLED and no balance, locked amount or totalLocked
\* changes.
AcceptedCancelRule ==
    \A i \in Issued, a \in TimedSenders :
        state[i] = STATE_ACCEPTED =>
            LET r == _cancelOrder(TopLevel, a, i, blockNumber) IN
            /\ r.err = "ok" <=> blockNumber > acceptedAt[i] + ACCEPT_TIMEOUT_BLOCKS
            /\ r.err = "ok" =>
                  /\ r.s.state[i] = STATE_CANCELLED
                  /\ r.s.balanceOfMap = balanceOfMap
                  /\ r.s.locked = locked
                  /\ r.s.totalLocked = totalLocked
\* an ACCEPTED order whose buyer holds tokens, at the first height past its
\* funding window, where a third party's cancel succeeds
AcceptedCancelRuleWitness ==
    \E i \in Issued :
        /\ state[i] = STATE_ACCEPTED
        /\ blockNumber = acceptedAt[i] + ACCEPT_TIMEOUT_BLOCKS + 1
        /\ balanceOfMap[buyer[i]] > 0
        /\ _cancelOrder(TopLevel, 3, i, blockNumber).err = "ok"

\* C15: fundOrder succeeds only on an ACCEPTED order, for the stored buyer,
\* at a height past neither the listing deadline nor acceptedAt +
\* ACCEPT_TIMEOUT_BLOCKS; on success the order is FUNDED with locked = price,
\* the buyer's balance shrinks by price and the contract balance and
\* totalLocked grow by it.  Past the funding window the call fails for every
\* caller, with WindowExpired for the buyer, and the order stays ACCEPTED.
FundRule ==
    \A i \in Issued, a \in TimedSenders :
        LET r == _fundOrder(TopLevel, a, i, blockNumber) IN
        /\ r.err = "ok" =>
              /\ state[i] = STATE_ACCEPTED
              /\ a = buyer[i]
              /\ blockNumber <= deadline[i]
              /\ blockNumber <= acceptedAt[i] + ACCEPT_TIMEOUT_BLOCKS
              /\ r.s.state[i] = STATE_FUNDED
              /\ r.s.locked[i] = price[i]
              /\ r.s.balanceOfMap[a] = balanceOfMap[a] - price[i]
              /\ r.s.balanceOfMap[contractAddress]
                    = balanceOfMap[contractAddress] + price[i]
              /\ r.s.totalLocked = totalLocked + price[i]
        /\ (state[i] = STATE_ACCEPTED
              /\ blockNumber > acceptedAt[i] + ACCEPT_TIMEOUT_BLOCKS) =>
              /\ r.err # "ok"
              /\ a = buyer[i] => r.err = "WindowExpired"
              /\ Persistent(r.s) = Persistent(Cur)
\* the buyer of an ACCEPTED order holds the price and funds it at the last
\* height of the funding window
FundRuleWitness ==
    \E i \in Issued :
        /\ state[i] = STATE_ACCEPTED
        /\ blockNumber = acceptedAt[i] + ACCEPT_TIMEOUT_BLOCKS
        /\ balanceOfMap[buyer[i]] >= price[i]
        /\ _fundOrder(TopLevel, buyer[i], i, blockNumber).err = "ok"

\* C16: cancelOrder on a CREATED order succeeds if and only if the caller is
\* the seller or the height is past the listing deadline; on success the
\* order is CANCELLED and no balance or totalLocked changes.
CreatedCancelRule ==
    \A i \in Issued, a \in TimedSenders :
        state[i] = STATE_CREATED =>
            LET r == _cancelOrder(TopLevel, a, i, blockNumber) IN
            /\ r.err = "ok" <=> (a = seller[i] \/ blockNumber > deadline[i])
            /\ r.err = "ok" =>
                  /\ r.s.state[i] = STATE_CANCELLED
                  /\ r.s.balanceOfMap = balanceOfMap
                  /\ r.s.totalLocked = totalLocked
\* a CREATED order at the first height past its deadline, where a third
\* party's cancel succeeds while tokens are held on the ledger
CreatedCancelRuleWitness ==
    \E i \in Issued :
        /\ state[i] = STATE_CREATED
        /\ blockNumber = deadline[i] + 1
        /\ balanceOfMap[2] > 0
        /\ _cancelOrder(TopLevel, 3, i, blockNumber).err = "ok"

\* C17: once the height is past an order's listing deadline, cancelOrder by
\* any caller succeeds on the order if its state is CREATED or ACCEPTED.
UnfundedCancelAfterDeadline ==
    \A i \in Issued, a \in TimedSenders :
        (state[i] \in {STATE_CREATED, STATE_ACCEPTED} /\ blockNumber > deadline[i]) =>
            _cancelOrder(TopLevel, a, i, blockNumber).err = "ok"

\* C17, amended: past the listing deadline cancelOrder by any caller succeeds
\* on a CREATED order; on an ACCEPTED order it succeeds exactly when the
\* height is also past acceptedAt + ACCEPT_TIMEOUT_BLOCKS.
UnfundedCancelByWindow ==
    \A i \in Issued, a \in TimedSenders :
        blockNumber > deadline[i] =>
            LET r == _cancelOrder(TopLevel, a, i, blockNumber) IN
            /\ state[i] = STATE_CREATED => r.err = "ok"
            /\ state[i] = STATE_ACCEPTED =>
                  (r.err = "ok" <=> blockNumber > acceptedAt[i] + ACCEPT_TIMEOUT_BLOCKS)
\* an ACCEPTED order past its listing deadline and within its funding
\* window, which a third party cannot cancel yet
UnfundedCancelByWindowWitness ==
    \E i \in Issued :
        /\ state[i] = STATE_ACCEPTED
        /\ blockNumber > deadline[i]
        /\ blockNumber <= acceptedAt[i] + ACCEPT_TIMEOUT_BLOCKS
        /\ _cancelOrder(TopLevel, 3, i, blockNumber).err = "WindowNotElapsed"

\* C18: acceptOrder succeeds exactly when the order is CREATED, the height
\* is not past the listing deadline and the caller is neither the zero
\* address nor the seller; on success the order is ACCEPTED with buyer =
\* caller and acceptedAt = height, and price, deadline, locked, totalLocked
\* and every balance are unchanged.  On an order that has a buyer, accept by
\* any caller fails and leaves the buyer in place.
AcceptRule ==
    \A i \in Issued, a \in TimedSenders :
        LET r == _acceptOrder(TopLevel, a, i, blockNumber) IN
        /\ r.err = "ok" <=>
              /\ state[i] = STATE_CREATED
              /\ blockNumber <= deadline[i]
              /\ a # ZERO_ADDRESS
              /\ a # seller[i]
        /\ r.err = "ok" =>
              /\ r.s.state[i] = STATE_ACCEPTED
              /\ r.s.buyer[i] = a
              /\ r.s.acceptedAt[i] = blockNumber
              /\ r.s.seller = seller
              /\ r.s.price = price
              /\ r.s.deadline = deadline
              /\ r.s.locked = locked
              /\ r.s.totalLocked = totalLocked
              /\ r.s.balanceOfMap = balanceOfMap
        /\ buyer[i] # ZERO_ADDRESS =>
              /\ r.err # "ok"
              /\ r.s.buyer[i] = buyer[i]
              /\ r.s.acceptedAt[i] = acceptedAt[i]
\* an order accepted at the last height of its listing, which a third
\* party then tries to accept at that height
AcceptRuleWitness ==
    \E i \in Issued :
        /\ state[i] = STATE_ACCEPTED
        /\ buyer[i] = 2
        /\ acceptedAt[i] = deadline[i]
        /\ blockNumber = deadline[i]
        /\ _acceptOrder(TopLevel, 3, i, blockNumber).err = "InvalidTransition"

\* C19: confirmCompletion succeeds only on a FUNDED order, for the buyer,
\* with locked > 0, at any height; on success the order is COMPLETED with
\* locked 0, the seller's balance grows by the locked amount (= price) and
\* the contract balance and totalLocked shrink by it.  A caller other than
\* the buyer never confirms.  At every height the buyer's call succeeds on
\* a FUNDED order whose amount is in escrow.
ConfirmRule ==
    \A i \in Issued, a \in TimedSenders :
        LET r == _confirmCompletion(TopLevel, a, i) IN
        /\ r.err = "ok" =>
              /\ state[i] = STATE_FUNDED
              /\ a = buyer[i]
              /\ locked[i] > 0
              /\ locked[i] = price[i]
              /\ r.s.state[i] = STATE_COMPLETED
              /\ r.s.locked[i] = 0
              /\ r.s.balanceOfMap[seller[i]] = balanceOfMap[seller[i]] + locked[i]
              /\ r.s.balanceOfMap[contractAddress]
                    = balanceOfMap[contractAddress] - locked[i]
              /\ r.s.totalLocked = totalLocked - locked[i]
        /\ a # buyer[i] => r.err # "ok" /\ Persistent(r.s) = Persistent(Cur)
        /\ (state[i] = STATE_FUNDED /\ InEscrow(i) /\ a = buyer[i]) => r.err = "ok"
\* a FUNDED order, its amount in escrow, past its listing deadline, which
\* the buyer confirms
ConfirmRuleWitness ==
    \E i \in Issued :
        /\ state[i] = STATE_FUNDED
        /\ InEscrow(i)
        /\ blockNumber > deadline[i]
        /\ _confirmCompletion(TopLevel, buyer[i], i).err = "ok"

\* The result of every call of a mutating entry point a top-level caller can
\* make in the current state, for every party and every order argument.
TopLevelCalls ==
    (IF orderCount < MaxOrders
     THEN {_createOrder(TopLevel, a, p, d, blockNumber) :
              a \in TimedSenders, p \in Prices, d \in DeadlineOffsets}
     ELSE {})
    \cup {_acceptOrder(TopLevel, a, i, blockNumber) : a \in TimedSenders, i \in OrderIdArgs}
    \cup {_fundOrder(TopLevel, a, i, blockNumber) : a \in TimedSenders, i \in OrderIdArgs}
    \cup {_confirmCompletion(TopLevel, a, i) : a \in TimedSenders, i \in OrderIdArgs}
    \cup {_cancelOrder(TopLevel, a, i, blockNumber) : a \in TimedSenders, i \in OrderIdArgs}
    \cup {_openDispute(TopLevel, a, i) : a \in TimedSenders, i \in OrderIdArgs}
    \cup {_sweepExcess(TopLevel, a) : a \in TimedSenders}
    \cup {_claimFaucet(TopLevel, a, blockNumber) : a \in TimedSenders}

\* order i is DISPUTED and its dispute-refund height has not been reached
DisputeFrozen(i) ==
    state[i] = STATE_DISPUTED /\ blockNumber < deadline[i] + DISPUTE_TIMEOUT_BLOCKS

\* C20: openDispute succeeds exactly on a FUNDED order for its buyer or
\* seller, and changes nothing but that order's state, which becomes
\* DISPUTED.  While an order with its amount in escrow is DISPUTED and its
\* dispute-refund height has not been reached, no call by anyone changes
\* its state or locked amount or takes its amount out of totalLocked or out
\* of the contract's balance.
DisputedFundsFrozen ==
    \A i \in Issued :
        /\ \A a \in TimedSenders :
              LET r == _openDispute(TopLevel, a, i) IN
              /\ r.err = "ok" <=> (state[i] = STATE_FUNDED /\ a \in {buyer[i], seller[i]})
              /\ r.err = "ok" => r.s = _writeState(TopLevel, i, STATE_DISPUTED)
        /\ (DisputeFrozen(i) /\ InEscrow(i)) =>
              \A r \in TopLevelCalls :
                  /\ r.s.state[i] = STATE_DISPUTED
                  /\ r.s.locked[i] = locked[i]
                  /\ r.s.totalLocked >= locked[i]
                  /\ r.s.balanceOfMap[contractAddress] >= locked[i]

\* ------------------------------------ claims about the single entry points
\* C21: createOrder succeeds exactly when the caller is non-zero, the price
\* is positive, the offset is at least MIN_DEADLINE_BLOCKS and height +
\* offset does not overflow; on success the new order is CREATED with seller
\* = caller, buyer zero, the given price, locked 0, deadline = height +
\* offset and acceptedAt 0, and nothing else changes but the counter.
CreateRule ==
    orderCount < MaxOrders =>
        \A a \in TimedSenders, p \in Prices, d \in DeadlineOffsets :
            LET r == _createOrder(TopLevel, a, p, d, blockNumber)
                id == orderCount + 1
            IN  /\ r.err = "ok" <=>
                      /\ a # ZERO_ADDRESS
                      /\ p > 0
                      /\ d >= MIN_DEADLINE_BLOCKS
                      /\ blockNumber + d <= U64_MAX
                /\ r.err = "ok" =>
                      r.s = [TopLevel EXCEPT !.orderCount = id,
                                             !.state[id] = STATE_CREATED,
                                             !.seller[id] = a,
                                             !.buyer[id] = ZERO_ADDRESS,
                                             !.price[id] = p,
                                             !.locked[id] = 0,
                                             !.deadline[id] = blockNumber + d,
                                             !.acceptedAt[id] = 0]
\* a second listing is created at a height above 0 while the first order
\* has funds in escrow
CreateRuleWitness ==
    /\ orderCount = 1
    /\ blockNumber > 0
    /\ state[1] = STATE_FUNDED /\ totalLocked > 0
    /\ _createOrder(TopLevel, 2, 1, MIN_DEADLINE_BLOCKS, blockNumber).err = "ok"

\* C22: the order counter starts at 0 and never decreases; a successful
\* createOrder returns the previous counter + 1, which is at least 1, and
\* leaves the counter at that value; with the counter at u64.MAX_VALUE
\* createOrder fails and the counter stays, so an identifier returned once
\* is below every identifier returned later.
CounterRule ==
    /\ orderCount = 0
    /\ [][orderCount' >= orderCount]_vars
    /\ [](\A a \in TimedSenders, p \in Prices, d \in DeadlineOffsets :
             LET r == _createOrder(TopLevel, a, p, d, blockNumber) IN
             /\ r.s.orderCount >= orderCount
             /\ r.err = "ok" =>
                   /\ r.ret = orderCount + 1
                   /\ r.ret \in 1..U64_MAX
                   /\ r.s.orderCount = r.ret
             /\ orderCount = U64_MAX =>
                   /\ r.err # "ok"
                   /\ r.s.orderCount = U64_MAX)
\* the counter is at u64.MAX_VALUE and a well-formed createOrder is refused
CounterRuleWitness ==
    /\ orderCount = U64_MAX
    /\ _createOrder(TopLevel, 1, 1, MIN_DEADLINE_BLOCKS, blockNumber).err = "OrderIdOverflow"

\* identifiers that do not address an issued order: 0, the one above the
\* counter, the arguments above the counter and the last u64
AbsentIds == {id \in OrderIdArgs \cup {orderCount + 1, U64_MAX} : id = 0 \/ id > orderCount}

\* C23: acceptOrder, fundOrder, confirmCompletion, cancelOrder, openDispute
\* and getOrder fail with OrderNotFound when the identifier is 0 or above
\* the counter, and change no order record, counter, totalLocked or balance.
AbsentOrderRejected ==
    \A id \in AbsentIds, a \in TimedSenders :
        \A r \in {_acceptOrder(TopLevel, a, id, blockNumber),
                  _fundOrder(TopLevel, a, id, blockNumber),
                  _confirmCompletion(TopLevel, a, id),
                  _cancelOrder(TopLevel, a, id, blockNumber),
                  _openDispute(TopLevel, a, id),
                  _getOrder(TopLevel, id)} :
            /\ r.err = "OrderNotFound"
            /\ Persistent(r.s) = Persistent(Cur)
\* the identifier above the counter is addressed by the buyer of the one
\* issued order, which has funds in escrow
AbsentOrderRejectedWitness ==
    /\ orderCount = 1
    /\ state[1] = STATE_FUNDED /\ totalLocked > 0
    /\ _cancelOrder(TopLevel, buyer[1], orderCount + 1, blockNumber).err = "OrderNotFound"
    /\ _getOrder(TopLevel, 0).err = "OrderNotFound"

\* _readState of any identifier: an unwritten slot reads as STATE_NONE
StateOf(id) == IF id \in OrderIds THEN state[id] ELSE STATE_NONE
NotCancellableStates == {STATE_COMPLETED, STATE_CANCELLED, STATE_NONE}

\* C24: cancelOrder on an order whose state is COMPLETED, CANCELLED or
\* absent fails with NotCancellable for every caller and changes nothing.
TerminalNotCancellable ==
    \A id \in OrderIdArgs, a \in TimedSenders :
        StateOf(id) \in NotCancellableStates =>
            LET r == _cancelOrder(TopLevel, a, id, blockNumber) IN
            /\ r.err = "NotCancellable"
            /\ r.s = TopLevel

\* C24, amended: cancelOrder on an issued order whose state is COMPLETED,
\* CANCELLED or absent fails with NotCancellable for every caller and
\* changes nothing; on an identifier that was not issued it fails with
\* OrderNotFound and changes no record, counter, totalLocked or balance.
IssuedNotCancellable ==
    /\ \A i \in Issued, a \in TimedSenders :
          state[i] \in NotCancellableStates =>
              LET r == _cancelOrder(TopLevel, a, i, blockNumber) IN
              /\ r.err = "NotCancellable"
              /\ r.s = TopLevel
    /\ \A id \in AbsentIds, a \in TimedSenders :
          LET r == _cancelOrder(TopLevel, a, id, blockNumber) IN
          /\ r.err = "OrderNotFound"
          /\ Persistent(r.s) = Persistent(Cur)
\* a COMPLETED order past its deadline next to an issued identifier whose
\* record was never written
IssuedNotCancellableWitness ==
    \E i, j \in Issued :
        /\ state[i] = STATE_COMPLETED /\ blockNumber > deadline[i]
        /\ balanceOfMap[seller[i]] > 0
        /\ state[j] = STATE_NONE
        /\ _cancelOrder(TopLevel, seller[i], i, blockNumber).err = "NotCancellable"

\* C25: the buyer field of an order is the zero address only while the
\* order is CREATED: every order that is ACCEPTED, FUNDED, DISPUTED,
\* COMPLETED or CANCELLED has a non-zero buyer.
BuyerZeroOnlyCreated ==
    \A i \in Issued :
        state[i] \in {STATE_ACCEPTED, STATE_FUNDED, STATE_DISPUTED,
                      STATE_COMPLETED, STATE_CANCELLED} =>
            buyer[i] # ZERO_ADDRESS

\* C25, amended: every order that is ACCEPTED, FUNDED, DISPUTED or COMPLETED
\* has a non-zero buyer and every CREATED order has the zero buyer; a
\* CANCELLED order has the buyer it had when it was cancelled, the zero
\* address if it was cancelled from CREATED.
BuyerZeroUnlessAccepted ==
    /\ [](\A i \in Issued :
             /\ state[i] \in {STATE_ACCEPTED, STATE_FUNDED, STATE_DISPUTED,
                               STATE_COMPLETED} => buyer[i] # ZERO_ADDRESS
             /\ state[i] = STATE_CREATED => buyer[i] = ZERO_ADDRESS)
    /\ [][\A i \in Issued :
             state'[i] = STATE_CANCELLED => buyer'[i] = buyer[i]]_vars
\* an order cancelled from CREATED, its buyer zero, next to a COMPLETED one
BuyerZeroUnlessAcceptedWitness ==
    \E i, j \in Issued :
        /\ state[i] = STATE_CANCELLED /\ buyer[i] = ZERO_ADDRESS
        /\ state[j] = STATE_COMPLETED /\ buyer[j] # ZERO_ADDRESS

\* The order records of a contract record.
Orders(s) ==
    [orderCount |-> s.orderCount, seller |-> s.seller, buyer |-> s.buyer,
     price |-> s.price, locked |-> s.locked, state |-> s.state,
     deadline |-> s.deadline, acceptedAt |-> s.acceptedAt]

\* C26: sweepExcess by any non-zero caller succeeds; it moves exactly
\* contractBalance - totalLocked from the contract to the caller when that
\* surplus is positive and changes nothing otherwise; it never changes
\* totalLocked or an order record, never leaves the contract balance below
\* totalLocked, and after it the contract balance equals totalLocked.
SweepRule ==
    \A a \in TimedSenders \ {ZERO_ADDRESS} :
        LET r == _sweepExcess(TopLevel, a)
            contractBal == balanceOfMap[contractAddress]
            surplus == contractBal - totalLocked
        IN  /\ r.err = "ok"
            /\ r.s.totalLocked = totalLocked
            /\ Orders(r.s) = Orders(TopLevel)
            /\ r.s.balanceOfMap[contractAddress] >= totalLocked
            /\ r.s.balanceOfMap[contractAddress] = totalLocked
            /\ IF surplus > 0
               THEN r.s = [TopLevel EXCEPT
                              !.balanceOfMap[contractAddress] = totalLocked,
                              !.balanceOfMap[a] = balanceOfMap[a] + surplus]
               ELSE r.s = TopLevel
\* a surplus next to an escrowed amount, swept by one of the parties
SweepRuleWitness ==
    /\ totalLocked > 0
    /\ balanceOfMap[contractAddress] > totalLocked
    /\ \E a \in Senders \ {ZERO_ADDRESS} :
          /\ _sweepExcess(TopLevel, a).s.balanceOfMap[a] > balanceOfMap[a]

\* ----------------------------------------- the escrow release on its own
\* _escrowRelease applied to a ledger whose contract balance and totalLocked
\* are any two amounts up to MaxLedger, the balance below totalLocked
\* (tokens taken out of the contract from outside) included.
MaxLedger == 4
LedgerAmounts == 0..MaxLedger
Recipients == {ZERO_ADDRESS, 1, 2}

ReleaseInit ==
    /\ orderCount = 0
    /\ seller = [i \in OrderIds |-> ZERO_ADDRESS]
    /\ buyer = [i \in OrderIds |-> ZERO_ADDRESS]
    /\ price = [i \in OrderIds |-> 0]
    /\ locked = [i \in OrderIds |-> 0]
    /\ state = [i \in OrderIds |-> STATE_NONE]
    /\ deadline = [i \in OrderIds |-> 0]
    /\ acceptedAt = [i \in OrderIds |-> 0]
    /\ totalLocked \in LedgerAmounts
    /\ lastClaimBlock = [a \in Accounts |-> 0]
    /\ \E c \in LedgerAmounts, b1, b2 \in {0, 1} :
          balanceOfMap = [a \in Accounts |->
                            IF a = contractAddress THEN c
                            ELSE IF a = 1 THEN b1
                            ELSE IF a = 2 THEN b2 ELSE 0]
    /\ totalSupply = 0
    /\ _locked = TRUE
    /\ blockNumber = 0

EscrowRelease(R, A) ==
    \E recipient \in R, amount \in A :
        Commit(_escrowRelease(Cur, recipient, amount))

ReleaseNext == EscrowRelease(Recipients, LedgerAmounts)

ReleaseSpec == ReleaseInit /\ [][ReleaseNext]_vars

\* The outcome of a release as the four validations in their order give it.
ReleaseOutcome(recipient, amount) ==
    LET contractBal == balanceOfMap[contractAddress] IN
    IF amount = 0 THEN "ok"
    ELSE IF recipient = ZERO_ADDRESS THEN "InvalidRecipient"
    ELSE IF contractBal < totalLocked THEN "CriticalInvariantViolation"
    ELSE IF totalLocked < amount THEN "LedgerUnderflow"
    ELSE IF contractBal < amount THEN "InsufficientEscrowBalance"
    ELSE "ok"

\* C27: a release of a non-zero amount checks, in this order and before it
\* writes anything, the recipient (InvalidRecipient), contractBalance >=
\* totalLocked (CriticalInvariantViolation), totalLocked >= amount
\* (LedgerUnderflow) and contractBalance >= amount
\* (InsufficientEscrowBalance); with contractBalance < totalLocked every
\* release to a recipient fails with CriticalInvariantViolation and changes
\* no balance and not totalLocked; a release of amount zero changes nothing.
ReleaseRule ==
    \A recipient \in Recipients, amount \in LedgerAmounts :
        LET r == _escrowRelease(Cur, recipient, amount)
            contractBal == balanceOfMap[contractAddress]
        IN  /\ r.err = ReleaseOutcome(recipient, amount)
            /\ r.err # "ok" => r.s = Cur
            /\ amount = 0 => r.s = Cur
            /\ (amount > 0 /\ recipient # ZERO_ADDRESS /\ contractBal < totalLocked) =>
                   /\ r.err = "CriticalInvariantViolation"
                   /\ r.s.balanceOfMap = balanceOfMap
                   /\ r.s.totalLocked = totalLocked
            /\ (amount > 0 /\ r.err = "ok") =>
                   r.s = [Cur EXCEPT
                             !.balanceOfMap[contractAddress] = contractBal - amount,
                             !.balanceOfMap[recipient] = balanceOfMap[recipient] + amount,
                             !.totalLocked = totalLocked - amount]
\* the contract holds less than totalLocked says, and the release of an
\* amount that both the balance and totalLocked cover is refused
ReleaseRuleWitness ==
    /\ balanceOfMap[1] > 0
    /\ 1 < balanceOfMap[contractAddress]
    /\ balanceOfMap[contractAddress] < totalLocked
    /\ _escrowRelease(Cur, 1, 1).err = "CriticalInvariantViolation"

\* C28: fundOrder by the registered buyer of an ACCEPTED order, within the
\* deadline and the funding window, with a balance below the price fails
\* with InsufficientBalance and leaves the order ACCEPTED with locked 0, and
\* totalLocked and every balance as they were.
FundShortOfBalance ==
    \A i \in Issued :
        (/\ state[i] = STATE_ACCEPTED
         /\ blockNumber <= deadline[i]
         /\ blockNumber <= fundDeadline(acceptedAt[i])
         /\ balanceOfMap[buyer[i]] < price[i]) =>
            LET r == _fundOrder(TopLevel, buyer[i], i, blockNumber) IN
            /\ r.err = "InsufficientBalance"
            /\ r.s.state[i] = STATE_ACCEPTED
            /\ r.s.locked[i] = 0
            /\ r.s.totalLocked = totalLocked
            /\ r.s.balanceOfMap = balanceOfMap

\* ------------------------------------------------------ the happy path
\* createOrder by seller S at height h0, acceptOrder by B at h1, fundOrder
\* by B at h2 and confirmCompletion by B, each a top-level call made on the
\* storage the call before it left.
HappyCreate(S, p, d, h0) == _createOrder(TopLevel, S, p, d, h0)
HappyAccept(S, B, p, d, h0, h1) ==
    LET r == HappyCreate(S, p, d, h0) IN
    _acceptOrder(_unlock(r.s), B, orderCount + 1, h1)
HappyFund(S, B, p, d, h0, h1, h2) ==
    LET r == HappyAccept(S, B, p, d, h0, h1) IN
    _fundOrder(_unlock(r.s), B, orderCount + 1, h2)
HappyConfirm(S, B, p, d, h0, h1, h2) ==
    LET r == HappyFund(S, B, p, d, h0, h1, h2) IN
    _confirmCompletion(_unlock(r.s), B, orderCount + 1)

HappyOffsets == {MIN_DEADLINE_BLOCKS, 10, U64_MAX}
HappyPrices == {1, TOKEN_MAX_SUPPLY}

\* C29: for a price p > 0, a seller S and a buyer B whose balance is at
\* least p, createOrder(p, offset) by S, acceptOrder by B, fundOrder by B
\* (within the listing deadline and the funding window) and
\* confirmCompletion by B all succeed; the order, which has the next
\* identifier, deadline = height + offset and acceptedAt = the height of the
\* accept, is FUNDED with totalLocked raised by p after the fund and ends
\* COMPLETED with locked 0, B's balance p lower, S's balance p higher, and
\* the contract balance and totalLocked at their values before the sequence.
HappyPath ==
    orderCount < MaxOrders =>
    \A S \in TimedSenders \ {ZERO_ADDRESS}, B \in TimedSenders \ {ZERO_ADDRESS},
       p \in HappyPrices, d \in HappyOffsets :
      LET h0 == blockNumber
          id == orderCount + 1
      IN
      (B # S /\ balanceOfMap[B] >= p /\ h0 + d <= U64_MAX) =>
        \A h1 \in {h0, h0 + 5}, h2 \in {h0, h0 + 5, h0 + 6} :
          (h1 <= h2 /\ h2 <= h0 + d /\ h2 <= fundDeadline(h1)) =>
            LET r1 == HappyCreate(S, p, d, h0)
                r2 == HappyAccept(S, B, p, d, h0, h1)
                r3 == HappyFund(S, B, p, d, h0, h1, h2)
                r4 == HappyConfirm(S, B, p, d, h0, h1, h2)
            IN  /\ r1.err = "ok" /\ r1.ret = id
                /\ r1.s.state[id] = STATE_CREATED
                /\ r1.s.deadline[id] = h0 + d
                /\ r2.err = "ok"
                /\ r2.s.state[id] = STATE_ACCEPTED
                /\ r2.s.acceptedAt[id] = h1
                /\ r3.err = "ok"
                /\ r3.s.state[id] = STATE_FUNDED
                /\ r3.s.locked[id] = p
                /\ r3.s.balanceOfMap[B] = balanceOfMap[B] - p
                /\ r3.s.balanceOfMap[contractAddress]
                      = balanceOfMap[contractAddress] + p
                /\ r3.s.totalLocked = totalLocked + p
                /\ r4.err = "ok"
                /\ r4.s.state[id] = STATE_COMPLETED
                /\ r4.s.locked[id] = 0
                /\ r4.s.balanceOfMap[B] = balanceOfMap[B] - p
                /\ r4.s.balanceOfMap[S] = balanceOfMap[S] + p
                /\ r4.s.balanceOfMap[contractAddress] = balanceOfMap[contractAddress]
                /\ r4.s.totalLocked = totalLocked
\* a second path after a COMPLETED one, the seller of the first order buying
\* with the tokens the first path paid out
HappyPathWitness ==
    /\ orderCount = 1 /\ state[1] = STATE_COMPLETED /\ totalLocked = 0
    /\ balanceOfMap[seller[1]] > 0
    /\ HappyConfirm(buyer[1], seller[1], 1, MIN_DEADLINE_BLOCKS,
                    blockNumber, blockNumber, blockNumber).err = "ok"

\* -------------------------------------------------- height arithmetic
Min(a, b) == IF a < b THEN a ELSE b
\* the heights next to the two points from which the sums pass u64.MAX
BoundaryHeights ==
    {0, U64_MAX - ACCEPT_TIMEOUT_BLOCKS, U64_MAX - ACCEPT_TIMEOUT_BLOCKS + 1,
     U64_MAX - DISPUTE_TIMEOUT_BLOCKS, U64_MAX - DISPUTE_TIMEOUT_BLOCKS + 1,
     U64_MAX}

\* C30: the end of the funding window is min(MAX, acceptedAt +
\* ACCEPT_TIMEOUT_BLOCKS) and the dispute-refund height is min(MAX, deadline
\* + DISPUTE_TIMEOUT_BLOCKS), for every stored height, neither below its
\* base height; where the sum passes MAX the window never expires: the
\* funding window of such an ACCEPTED order rejects no fundOrder and lets no
\* cancelOrder through at any height, and such a DISPUTED order, its amount
\* in escrow, can be cancelled at no height.
HeightsNeverWrap ==
    /\ \A h \in BoundaryHeights \cup {acceptedAt[i] : i \in Issued}
                               \cup {deadline[i] : i \in Issued} :
          /\ fundDeadline(h) = Min(U64_MAX, h + ACCEPT_TIMEOUT_BLOCKS)
          /\ fundDeadline(h) >= h
          /\ forceRefundAt(h) = Min(U64_MAX, h + DISPUTE_TIMEOUT_BLOCKS)
          /\ forceRefundAt(h) >= h
    /\ \A i \in Issued, h \in LaterHeights, a \in TimedSenders :
          /\ (/\ state[i] = STATE_ACCEPTED
              /\ acceptedAt[i] + ACCEPT_TIMEOUT_BLOCKS > U64_MAX) =>
                 /\ _cancelOrder(TopLevel, a, i, h).err = "WindowNotElapsed"
                 /\ h <= deadline[i] =>
                       _fundOrder(TopLevel, buyer[i], i, h).err # "WindowExpired"
          /\ (/\ state[i] = STATE_DISPUTED /\ InEscrow(i)
              /\ deadline[i] + DISPUTE_TIMEOUT_BLOCKS > U64_MAX) =>
                 _cancelOrder(TopLevel, a, i, h).err = "WindowNotElapsed"

\* ------------------------------------------------ claims about the faucet
\* the heights less than FAUCET_COOLDOWN after height b
WithinCooldown(b) == {b, b + 1, b + FAUCET_COOLDOWN - 1}

\* C31: after a successful claimFaucet by an address (the step that mints
\* to it), claimFaucet by the same address fails at every height less than
\* FAUCET_COOLDOWN blocks later, whatever the height of the first claim.
FaucetCooldown ==
    [][\A a \in TimedSenders :
          (/\ totalSupply' = totalSupply + FAUCET_AMOUNT
           /\ balanceOfMap'[a] = balanceOfMap[a] + FAUCET_AMOUNT) =>
              \A h \in WithinCooldown(blockNumber') :
                  _claimFaucet(_unlock(Cur'), a, h).err # "ok"]_vars

\* C32: the total supply never exceeds TOKEN_MAX_SUPPLY; a claimFaucet that
\* would take totalSupply + FAUCET_AMOUNT above the cap fails, mints nothing
\* and leaves the caller's last-claim block alone; a claimFaucet that
\* succeeds mints FAUCET_AMOUNT to the caller and changes neither
\* totalLocked nor the contract's balance nor any order.
SupplyCap ==
    /\ totalSupply <= TOKEN_MAX_SUPPLY
    /\ \A a \in TimedSenders :
          LET r == _claimFaucet(TopLevel, a, blockNumber) IN
          /\ totalSupply + FAUCET_AMOUNT > TOKEN_MAX_SUPPLY =>
                /\ r.err # "ok"
                /\ Persistent(r.s) = Persistent(Cur)
          /\ r.err = "ok" =>
                /\ r.s.totalSupply = totalSupply + FAUCET_AMOUNT
                /\ r.s.totalSupply <= TOKEN_MAX_SUPPLY
                /\ r.s.balanceOfMap[a] = balanceOfMap[a] + FAUCET_AMOUNT
                /\ r.s.totalLocked = totalLocked
                /\ r.s.balanceOfMap[contractAddress] = balanceOfMap[contractAddress]
                /\ Orders(r.s) = Orders(TopLevel)
\* the supply at the cap, part of it in escrow, and a claim past its
\* cooldown refused for the cap
SupplyCapWitness ==
    /\ totalSupply = TOKEN_MAX_SUPPLY
    /\ totalLocked > 0
    /\ \E a \in Senders :
          _claimFaucet(TopLevel, a, blockNumber).err = "SupplyCap"

\* ------------------------------------------ claims about whole histories
\* C33: every identifier that passes the existence check refers to an
\* initialised order: its state is one of the six defined states, never the
\* absent value, and its seller and price are non-zero.
IssuedInitialised ==
    \A id \in OrderIdArgs :
        _requireOrderExists(TopLevel, id) =>
            /\ state[id] \in Defined
            /\ state[id] # STATE_NONE
            /\ seller[id] # ZERO_ADDRESS
            /\ price[id] > 0

\* The step locks the funds of order i: ACCEPTED to FUNDED, the price moved
\* from the buyer to the contract and added to totalLocked.
LockStep(i) ==
    /\ state[i] = STATE_ACCEPTED /\ state'[i] = STATE_FUNDED
    /\ locked[i] = 0 /\ locked'[i] = price[i]
    /\ balanceOfMap'[buyer[i]] = balanceOfMap[buyer[i]] - price[i]
    /\ balanceOfMap'[contractAddress] = balanceOfMap[contractAddress] + price[i]
    /\ totalLocked' = totalLocked + price[i]
\* The step releases the funds of order i: the locked amount, which is the
\* price, leaves the contract and totalLocked and reaches the seller when
\* the order is COMPLETED and the buyer when it is CANCELLED.
ReleaseStep(i) ==
    /\ state[i] \in Escrowed /\ state'[i] \in Terminal
    /\ locked[i] = price[i] /\ locked'[i] = 0
    /\ balanceOfMap'[contractAddress] = balanceOfMap[contractAddress] - price[i]
    /\ totalLocked' = totalLocked - price[i]
    /\ LET to == IF state'[i] = STATE_COMPLETED THEN seller[i] ELSE buyer[i]
           other == IF state'[i] = STATE_COMPLETED THEN buyer[i] ELSE seller[i]
       IN  /\ balanceOfMap'[to] = balanceOfMap[to] + price[i]
           /\ balanceOfMap'[other] = balanceOfMap[other]

\* C34: for every order, funds are locked at most once and released at
\* most once, the release only after the lock and of the amount locked, the
\* price, and to the seller or to the buyer, never both: every step that
\* changes an order's locked amount is its lock (from ACCEPTED, the price
\* moved into the contract) or its release (from FUNDED or DISPUTED into a
\* terminal state, the price moved out to one party), an order past
\* ACCEPTED with locked 0 is never locked again, and an order enters FUNDED
\* or a terminal state from FUNDED or DISPUTED only by such a step.
NoDoubleSpend ==
    [][\A i \in Issued :
          /\ locked'[i] # locked[i] => LockStep(i) \/ ReleaseStep(i)
          /\ (state[i] # STATE_FUNDED /\ state'[i] = STATE_FUNDED) => LockStep(i)
          /\ (state[i] \in Escrowed /\ state'[i] \in Terminal) => ReleaseStep(i)
          /\ (locked[i] = 0 /\ state[i] \notin {STATE_CREATED, STATE_ACCEPTED}) =>
                locked'[i] = 0]_vars

\* ------------------------------------------- two orders, three parties
\* Party 1 sells, parties 2 and 3 buy, so that an order has a caller who is
\* neither its seller nor its buyer and is a party of the other order.
Buyers == {2, 3}
Parties == {1} \cup Buyers

PartiesNext ==
    \/ CreateOrder({1}, {1}, {MIN_DEADLINE_BLOCKS}, MaxOrders)
    \/ AcceptOrder(Buyers, OrderIds)
    \/ FundOrder(Buyers, OrderIds)
    \/ ConfirmCompletion(Parties, OrderIds)
    \/ CancelOrder(Parties, OrderIds)
    \/ OpenDispute(Parties, OrderIds)
    \/ SweepExcess({3})
    \/ ClaimFaucet(Buyers)
    \/ GetOrder(OrderIds)
    \/ Transfer({2})
    \/ Constructor
    \/ AdvanceBlock(Heights)

PartiesSpec == Init /\ [][PartiesNext]_vars

\* The result of every call of a mutating entry point that caller a can make
\* as a top-level call in the current state, the faucet left out.
CallsBy(a) ==
    (IF orderCount < MaxOrders
     THEN {_createOrder(TopLevel, a, p, d, blockNumber) :
              p \in Prices, d \in DeadlineOffsets}
     ELSE {})
    \cup {_acceptOrder(TopLevel, a, i, blockNumber) : i \in OrderIdArgs}
    \cup {_fundOrder(TopLevel, a, i, blockNumber) : i \in OrderIdArgs}
    \cup {_confirmCompletion(TopLevel, a, i) : i \in OrderIdArgs}
    \cup {_cancelOrder(TopLevel, a, i, blockNumber) : i \in OrderIdArgs}
    \cup {_openDispute(TopLevel, a, i) : i \in OrderIdArgs}
    \cup {_sweepExcess(TopLevel, a)}
PartiesOf(i) == {seller[i], buyer[i]}
Surplus ==
    IF balanceOfMap[contractAddress] > totalLocked
    THEN balanceOfMap[contractAddress] - totalLocked ELSE 0

\* C35: while an order is FUNDED or DISPUTED, no call by a caller who is
\* neither its seller nor its buyer changes its state or locked amount, or
\* takes its amount, when that is in escrow, out of totalLocked or out of
\* the contract's balance; sweepExcess by such a caller leaves totalLocked
\* alone; and no call but claimFaucet gives a caller who is a party of no
\* order more than the surplus contractBalance - totalLocked.
ThirdPartyCannotTake ==
    /\ \A i \in Issued, a \in TimedSenders :
          (state[i] \in Escrowed /\ a \notin PartiesOf(i)) =>
              /\ \A r \in CallsBy(a) :
                    /\ r.s.state[i] = state[i]
                    /\ r.s.locked[i] = locked[i]
                    /\ InEscrow(i) =>
                          /\ r.s.totalLocked >= locked[i]
                          /\ r.s.balanceOfMap[contractAddress] >= locked[i]
              /\ _sweepExcess(TopLevel, a).s.totalLocked = totalLocked
    /\ \A a \in TimedSenders :
          (\A j \in Issued : a \notin PartiesOf(j)) =>
              \A r \in CallsBy(a) :
                  r.s.balanceOfMap[a] <= balanceOfMap[a] + Surplus

\* C36: the locked funds of an order reach its seller only by a successful
\* confirmCompletion of that order's buyer while it is FUNDED; a successful
\* cancelOrder from FUNDED or DISPUTED pays the whole locked amount to the
\* buyer and nothing to the seller; so for an order with its amount in
\* escrow, and for a DISPUTED one in particular, a call other than that
\* confirmCompletion that raises the seller's balance leaves the order and
\* its amount in totalLocked.
PayoutRouting ==
    \A i \in Issued, a \in TimedSenders :
        (state[i] \in Escrowed /\ InEscrow(i)) =>
            LET sl == seller[i]
                b == buyer[i]
                c == _confirmCompletion(TopLevel, a, i)
                x == _cancelOrder(TopLevel, a, i, blockNumber)
            IN  /\ c.err = "ok" =>
                      /\ a = b /\ state[i] = STATE_FUNDED
                      /\ c.s.balanceOfMap[sl] = balanceOfMap[sl] + locked[i]
                      /\ c.s.balanceOfMap[b] = balanceOfMap[b]
                /\ x.err = "ok" =>
                      /\ x.s.balanceOfMap[b] = balanceOfMap[b] + locked[i]
                      /\ x.s.balanceOfMap[sl] = balanceOfMap[sl]
                /\ \A r \in CallsBy(a) \ {c} :
                      r.s.balanceOfMap[sl] > balanceOfMap[sl] =>
                          /\ r.s.state[i] = state[i]
                          /\ r.s.locked[i] = locked[i]
                          /\ r.s.totalLocked >= locked[i]

\* The result of every call of fundOrder, confirmCompletion, cancelOrder and
\* sweepExcess that a top-level caller can make in the current state.
EscrowCalls ==
    {_fundOrder(TopLevel, a, i, blockNumber) : a \in TimedSenders, i \in OrderIdArgs}
    \cup {_confirmCompletion(TopLevel, a, i) : a \in TimedSenders, i \in OrderIdArgs}
    \cup {_cancelOrder(TopLevel, a, i, blockNumber) : a \in TimedSenders, i \in OrderIdArgs}
    \cup {_sweepExcess(TopLevel, a) : a \in TimedSenders}

\* C37: every successful fundOrder, confirmCompletion, cancelOrder and
\* sweepExcess leaves the sum of all ledger balances, the contract's
\* included, and the total supply unchanged.
Conservation ==
    \A r \in EscrowCalls :
        r.err = "ok" =>
            /\ SumOver(r.s.balanceOfMap, Accounts) = SumOver(balanceOfMap, Accounts)
            /\ r.s.totalSupply = totalSupply
\* an order in escrow that its buyer can confirm and a surplus to sweep,
\* next to an order cancelled after its acceptance
ConservationWitness ==
    /\ Surplus > 0
    /\ \E i, j \in Issued :
          /\ state[i] = STATE_FUNDED /\ InEscrow(i)
          /\ _confirmCompletion(TopLevel, buyer[i], i).err = "ok"
          /\ state[j] = STATE_CANCELLED /\ buyer[j] # ZERO_ADDRESS

NoSelfTrade ==
    \A i \in Issued :
        state[i] \in Defined =>
            /\ seller[i] # ZERO_ADDRESS
            /\ buyer[i] # ZERO_ADDRESS => buyer[i] # seller[i]
\* two orders between the same two parties, their roles exchanged
NoSelfTradeWitness ==
    \E i, j \in Issued :
        /\ buyer[i] # ZERO_ADDRESS /\ buyer[j] # ZERO_ADDRESS
        /\ seller[i] = buyer[j] /\ buyer[i] = seller[j]

====
